---- MODULE Spec2Model ----
(***************************************************************************)
(* The rank-and-justify deliberation handler (POST) of                     *)
(* src/app/api/generate/route.ts, lines 535-1013, as a state machine.      *)
(*                                                                         *)
(* The handler is an async function: every action below is the code that  *)
(* runs between two await points.  Spec processes one request without      *)
(* attachments (SpecFair: the same under fairness of the handler's steps), *)
(* SpecAttachments one request that may carry attachments, SpecConcurrent  *)
(* two requests interleaved at their awaits, SpecUnvalidated one request   *)
(* whose iterations and counts may be negative, SpecLogging one request    *)
(* while the interaction log may fail to be written.  SpecParser applies   *)
(* parseModelResponse to the encodings of a valid vote, SpecRawParser to   *)
(* other texts.  SpecModels is the GET handler of the same route (lines    *)
(* 12-47), which lists the providers' models.                              *)
(* Weights are kept in tenths (5 stands for 0.5), so that the weighted     *)
(* mean is an exact rational: a composite is a sequence of numerators over *)
(* the common denominator totalWeight.  JavaScript's NaN (the result of    *)
(* arithmetic on a missing array element) is the number NaN below.         *)
(***************************************************************************)
EXTENDS Integers, Sequences, FiniteSets, TLC

(* ------------------------------ bounds -------------------------------- *)
MaxModels == 2
MaxIter == 3
MaxCount == 2
MaxCalls == 6

(* ------------------------- program constants -------------------------- *)
Million == 1000000
NaN == -999999999
WeightScale == 10

(* --------------------------- request inputs --------------------------- *)
Providers == <<"OpenAI", "Anthropic", "Open-source">>
ModelNames == <<"gpt-4", "claude-3", "phi3">>
WeightValues == {-1, 0, 6, 15}
CountValues == {0} \cup 2..MaxCount
IterationValues == {0} \cup 2..MaxIter
NoOutcomes == <<"absent">>
OutcomeValues == {NoOutcomes, <<"yes", "no">>}

ModelInput(k) ==
  [provider : {Providers[k]}, model : {ModelNames[k]},
   weight : WeightValues, count : CountValues]

ModelLists ==
  UNION {{s \in [1..n -> UNION {ModelInput(k) : k \in 1..n}] :
            \A k \in 1..n : s[k] \in ModelInput(k)} : n \in 0..MaxModels}

RECURSIVE SumSeq(_)
SumSeq(s) == IF s = <<>> THEN 0 ELSE s[1] + SumSeq(Tail(s))

\* body.iterations || 1   and   modelInfo.count || 1
OrOne(n) == IF n = 0 THEN 1 ELSE n

CountsOf(ms) == [k \in 1..Len(ms) |-> OrOne(ms[k].count)]
PlannedCalls(r) == OrOne(r.iterations) * SumSeq(CountsOf(r.models))

\* body.attachments after the map of route.ts:578-604: the type of every
\* attachment, <<>> when the request has none
NoAttachments == <<>>
AttachmentValues == {NoAttachments, <<"image">>, <<"text", "image">>}

RankAndJustifyInput ==
  {r \in [prompt : {"", "Q"}, models : ModelLists,
          iterations : IterationValues, outcomes : OutcomeValues,
          attachments : {NoAttachments}] :
     PlannedCalls(r) <= MaxCalls}

\* requests with attachments, to models with and without the capability
CapabilityNames == <<{"gpt-3.5-turbo", "gpt-4", "gpt-4o"}, {"claude-3"}, {"phi3"}>>

CapabilityModelInput(k) ==
  [provider : {Providers[k]}, model : CapabilityNames[k],
   weight : {6}, count : {0}]

CapabilityModelLists ==
  UNION {{s \in [1..n -> UNION {CapabilityModelInput(k) : k \in 1..n}] :
            \A k \in 1..n : s[k] \in CapabilityModelInput(k)} : n \in 1..MaxModels}

AttachmentInput ==
  {r \in [prompt : {"Q"}, models : CapabilityModelLists,
          iterations : {0, 2}, outcomes : {<<"yes", "no">>},
          attachments : AttachmentValues] :
     PlannedCalls(r) <= MaxCalls}

(* ------------------------- connector responses ------------------------ *)
\* What a voting connector call can produce: a rejection, or a text.  A text
\* is described by what the extraction strategies of parseModelResponse
\* find in it: whether an object with score and justification was found,
\* whether score is an array, whether justification is a string, the score
\* entries after Number() (NaN for a non-numeric entry) and the text.
Text(found, isArr, isStr, score, just) ==
  [kind |-> "text", found |-> found, scoreIsArray |-> isArr,
   justificationIsString |-> isStr, score |-> score, justification |-> just]

Thrown == [kind |-> "throw", found |-> FALSE, scoreIsArray |-> FALSE,
           justificationIsString |-> FALSE, score |-> <<>>, justification |-> ""]

\* the results the connector of each provider can produce for one call
ConnectorResults(provider) ==
  IF provider = "OpenAI"
  THEN { Text(TRUE, TRUE, TRUE, <<600000, 400000>>, "a"),
         Text(TRUE, TRUE, TRUE, <<333333, 666667>>, ""),
         Text(TRUE, TRUE, TRUE, <<500000, 400000>>, "e"),
         Thrown }
  ELSE IF provider = "Anthropic"
  THEN { Text(TRUE, TRUE, TRUE, <<400000, 600000>>, "b"),
         Text(TRUE, TRUE, TRUE, <<1000000>>, "d"),
         Text(FALSE, FALSE, FALSE, <<>>, ""),
         Thrown }
  ELSE { Text(TRUE, TRUE, TRUE, <<600000, 400000>>, "c"),
         Text(TRUE, TRUE, TRUE, <<NaN, 1000000>>, "f"),
         Thrown }

AllConnectorResults ==
  UNION {ConnectorResults(Providers[k]) : k \in 1..Len(Providers)}

JustifierResults == {"J", "throw"}

(* --------------------------- pure functions --------------------------- *)
IsNaN(x) == x = NaN
Add(a, b) == IF IsNaN(a) \/ IsNaN(b) THEN NaN ELSE a + b
Mul(a, b) == IF IsNaN(a) \/ IsNaN(b) THEN NaN ELSE a * b
\* Math.floor(a / n) for n > 0
FloorDiv(a, n) == IF IsNaN(a) THEN NaN ELSE a \div n
\* vectors[i][j]: a missing element is undefined, which arithmetic turns to NaN
At(v, k) == IF k \in 1..Len(v) THEN v[k] ELSE NaN

RECURSIVE AddSeq(_)
AddSeq(s) == IF s = <<>> THEN 0 ELSE Add(s[1], AddSeq(Tail(s)))

Null == [valid |-> FALSE, decisionVector |-> <<>>, justification |-> ""]

\* mutant: the sum of the scores is not validated
parseModelResponse_NoSumCheck(responseText, outcomes) ==
  IF ~responseText.found THEN Null
  ELSE IF ~responseText.scoreIsArray THEN Null
  ELSE IF ~responseText.justificationIsString THEN Null
  ELSE IF \E k \in 1..Len(responseText.score) : IsNaN(responseText.score[k]) THEN Null
  ELSE IF outcomes # NoOutcomes /\ Len(responseText.score) # Len(outcomes) THEN Null
  ELSE [valid |-> TRUE, decisionVector |-> responseText.score,
        justification |-> responseText.justification]

parseModelResponse(responseText, outcomes) ==
  IF ~responseText.found THEN Null
  ELSE IF ~responseText.scoreIsArray THEN Null
  ELSE IF ~responseText.justificationIsString THEN Null
  ELSE IF \E k \in 1..Len(responseText.score) : IsNaN(responseText.score[k]) THEN Null
  ELSE IF outcomes # NoOutcomes /\ Len(responseText.score) # Len(outcomes) THEN Null
  ELSE IF SumSeq(responseText.score) # Million THEN Null
  ELSE [valid |-> TRUE, decisionVector |-> responseText.score,
        justification |-> responseText.justification]

(* ----------------- the extraction strategies, on texts ----------------- *)
\* A raw text is a sequence of tokens; the regular expressions of
\* parseModelResponse see the tokens below and nothing finer.  Of a token
\* that stands for a list of integers, val is the list.
Tok(kind) == [kind |-> kind, val |-> <<>>]
JsonArray(v) == [kind |-> "array", val |-> v]
NumberList(v) == [kind |-> "numbers", val |-> v]

IsWhitespace(t) == t.kind \in {"space", "newline"}
IsScoreTag(t) == t.kind \in {"SCORE:", "score:"}
IsJustificationTag(t) == t.kind \in {"JUSTIFICATION:", "justification:"}

FirstIndex(S) == IF S = {} THEN 0 ELSE CHOOSE n \in S : \A m \in S : n <= m
LastIndex(S) == IF S = {} THEN 0 ELSE CHOOSE n \in S : \A m \in S : m <= n

\* String.prototype.trim
Trim(text) ==
  LET keep == {n \in 1..Len(text) : ~IsWhitespace(text[n])} IN
  IF keep = {} THEN <<>> ELSE SubSeq(text, FirstIndex(keep), LastIndex(keep))

\* the first position from n on that holds no whitespace (Len + 1 if none)
SkipWhitespace(text, n) ==
  LET rest == {m \in n..Len(text) : ~IsWhitespace(text[m])} IN
  IF rest = {} THEN Len(text) + 1 ELSE FirstIndex(rest)

NotFound == [ok |-> FALSE, hasKeys |-> FALSE, scoreIsArray |-> FALSE,
             justificationIsString |-> FALSE, score |-> <<>>,
             justification |-> <<>>]

\* the value a text ends with when it is a JSON string: "quote", tokens
\* other than a quote, "quote"; a token "string" is a whole string literal
EndsWithString(text, from) ==
  /\ from < Len(text) - 1
  /\ text[from].kind = "quote"
  /\ text[Len(text) - 1].kind = "quote"
  /\ text[Len(text)].kind = "}"
  /\ \A n \in (from + 1)..(Len(text) - 2) : text[n].kind # "quote"

\* JSON.parse.  Of the texts considered here the valid JSON values are the
\* objects {"score":[...],"justification":"..."}, the same with a string for
\* the score, and {"note":"..."}.  ok: the text is JSON (an object);
\* hasKeys: 'score' in parsed && 'justification' in parsed.  Of an array
\* token val holds the entries as Number() converts them (route.ts:919).
JsonParse(text) ==
  IF /\ Len(text) >= 8
     /\ text[1].kind = "{"
     /\ text[2].kind = "score-key"
     /\ text[3].kind \in {"array", "string"}
     /\ text[4].kind = ","
     /\ text[5].kind = "justification-key"
     /\ EndsWithString(text, 6)
  THEN [ok |-> TRUE, hasKeys |-> TRUE, scoreIsArray |-> text[3].kind = "array",
        justificationIsString |-> TRUE, score |-> text[3].val,
        justification |-> SubSeq(text, 7, Len(text) - 2)]
  ELSE IF /\ Len(text) = 4
          /\ text[1].kind = "{"
          /\ text[2].kind = "note-key"
          /\ text[3].kind = "string"
          /\ text[4].kind = "}"
  THEN [NotFound EXCEPT !.ok = TRUE]
  ELSE NotFound

\* strategy 0 (route.ts:833-846): the trimmed text is a JSON object
DirectJson(text) ==
  LET trimmedResponse == Trim(text) IN
  IF /\ trimmedResponse # <<>>
     /\ trimmedResponse[1].kind = "{"
     /\ trimmedResponse[Len(trimmedResponse)].kind = "}"
     /\ JsonParse(trimmedResponse).hasKeys
  THEN JsonParse(trimmedResponse)
  ELSE NotFound

\* strategy 1 (route.ts:849-859): /```(?:json)?\s*({[\s\S]*?})\s*```/; what
\* JSON.parse makes of the block is taken as the response whatever its keys
\* where the brace after the fence at p must stand, and where the match ends
BlockStart(text, p) ==
  SkipWhitespace(text, IF p + 1 <= Len(text) /\ text[p + 1].kind = "json"
                       THEN p + 2 ELSE p + 1)

BlockEnd(text, p) ==
  LET q == BlockStart(text, p) IN
  IF q > Len(text) \/ text[q].kind # "{" THEN 0
  ELSE FirstIndex({e \in (q + 1)..Len(text) :
                     /\ text[e].kind = "}"
                     /\ LET f == SkipWhitespace(text, e + 1) IN
                        f <= Len(text) /\ text[f].kind = "fence"})

JsonBlock(text) ==
  LET p == FirstIndex({n \in 1..Len(text) :
                         text[n].kind = "fence" /\ BlockEnd(text, n) # 0}) IN
  IF p = 0 THEN NotFound
  ELSE JsonParse(Trim(SubSeq(text, BlockStart(text, p), BlockEnd(text, p))))

\* strategy 2 (route.ts:862-879): /\{[\s\S]*?\}/g, the matches tried in turn
RECURSIVE JsonScan(_, _)
JsonScan(text, from) ==
  LET q == FirstIndex({n \in from..Len(text) : text[n].kind = "{"})
      e == IF q = 0 THEN 0
           ELSE FirstIndex({n \in (q + 1)..Len(text) : text[n].kind = "}"}) IN
  IF e = 0 THEN NotFound
  ELSE IF JsonParse(SubSeq(text, q, e)).hasKeys THEN JsonParse(SubSeq(text, q, e))
  ELSE JsonScan(text, e + 1)

\* strategy 3 (route.ts:882-903): /SCORE:\s*([0-9,\s]+)/i; the texts considered
\* hold at most one list of integers after the tag
ScoreRun(text, p) ==
  LET stop == FirstIndex({n \in (p + 1)..Len(text) :
                            ~IsWhitespace(text[n]) /\ text[n].kind # "numbers"}) IN
  SubSeq(text, p + 1, IF stop = 0 THEN Len(text) ELSE stop - 1)

OldFormatScore(text) ==
  LET p == FirstIndex({n \in 1..Len(text) :
                         IsScoreTag(text[n]) /\ ScoreRun(text, n) # <<>>})
      lists == IF p = 0 THEN {}
               ELSE {n \in 1..Len(ScoreRun(text, p)) :
                       ScoreRun(text, p)[n].kind = "numbers"} IN
  IF p = 0 THEN [ok |-> FALSE, score |-> <<>>]
  ELSE IF lists = {} THEN [ok |-> TRUE, score |-> <<NaN>>]
  ELSE [ok |-> TRUE, score |-> ScoreRun(text, p)[FirstIndex(lists)].val]

\* /JUSTIFICATION:\s*([^]*?)(?:$|SCORE:)/i, trimmed
\* mutant: the justification ends at the first whitespace
OldFormatJustification_FirstWord(text) ==
  LET p == FirstIndex({n \in 1..Len(text) : IsJustificationTag(text[n])})
      a == SkipWhitespace(text, p + 1)
      stop == FirstIndex({n \in a..Len(text) :
                            IsScoreTag(text[n]) \/ IsWhitespace(text[n])}) IN
  IF p = 0 THEN <<>>
  ELSE Trim(SubSeq(text, a, IF stop = 0 THEN Len(text) ELSE stop - 1))

OldFormatJustification(text) ==
  LET p == FirstIndex({n \in 1..Len(text) : IsJustificationTag(text[n])})
      stop == FirstIndex({n \in (p + 1)..Len(text) : IsScoreTag(text[n])}) IN
  IF p = 0 THEN <<>>
  ELSE Trim(SubSeq(text, p + 1, IF stop = 0 THEN Len(text) ELSE stop - 1))

\* route.ts:830-915: what the strategies find in a text, as a response of
\* the connector
ExtractResponse(text) ==
  LET found == IF DirectJson(text).ok THEN DirectJson(text)
               ELSE IF JsonBlock(text).ok THEN JsonBlock(text)
               ELSE JsonScan(text, 1) IN
  IF found.ok
  THEN Text(TRUE, found.scoreIsArray, found.justificationIsString,
            found.score, found.justification)
  ELSE IF OldFormatScore(text).ok
  THEN Text(TRUE, TRUE, TRUE, OldFormatScore(text).score, OldFormatJustification(text))
  ELSE Text(FALSE, FALSE, FALSE, <<>>, <<>>)

(* ------------------- votes and their three encodings ------------------ *)
VoteVectors == {<<700000, 300000>>, <<1000000, 0>>, <<1000000>>}

JustificationTexts ==
  { <<>>,
    <<Tok("x")>>,
    <<Tok("x"), Tok("space"), Tok("y")>>,
    <<Tok("space"), Tok("x")>>,
    <<Tok("x"), Tok("space"), Tok("score:"), Tok("space"), Tok("y")>>,
    <<Tok("x"), Tok("}"), Tok("fence")>>,
    <<Tok("{"), Tok("x"), Tok("}")>>,
    <<Tok("x"), Tok("fence"), Tok("y")>> }

Formats == {"json", "fenced", "legacy"}

\* {"score":[...],"justification":"..."}
CanonicalJson(vote) ==
  <<Tok("{"), Tok("score-key"), JsonArray(vote.decisionVector), Tok(","),
    Tok("justification-key"), Tok("quote")>>
  \o vote.justification \o <<Tok("quote"), Tok("}")>>

Serialize(vote, format) ==
  IF format = "json" THEN CanonicalJson(vote)
  ELSE IF format = "fenced"
  THEN <<Tok("fence"), Tok("json"), Tok("newline")>> \o CanonicalJson(vote)
       \o <<Tok("newline"), Tok("fence")>>
  ELSE <<Tok("SCORE:"), Tok("space"), NumberList(vote.decisionVector),
         Tok("newline"), Tok("JUSTIFICATION:"), Tok("space")>>
       \o vote.justification

\* the valid votes, each in one encoding, with the outcomes of the request
ParserInputs ==
  {r \in {[vote |-> [decisionVector |-> v, justification |-> x],
           format |-> f, outcomes |-> o,
           text |-> Serialize([decisionVector |-> v, justification |-> x], f)] :
             v \in VoteVectors, x \in JustificationTexts, f \in Formats,
             o \in OutcomeValues} :
     r.outcomes # NoOutcomes => Len(r.outcomes) = Len(r.vote.decisionVector)}

(* --------------------- texts that encode no valid vote ----------------- *)
\* score arrays as JSON gives them: a negative entry, an entry that is no
\* number, a wrong sum
RawVectors ==
  {<<700000, 300000>>, <<-1, 1000001>>, <<NaN, 1000000>>, <<500000, 400000>>}

\* /[0-9,\s]+/ (route.ts:884) matches no minus sign
OldFormatVectors == {v \in RawVectors : \A k \in 1..Len(v) : v[k] >= 0 \/ IsNaN(v[k])}

VoteOf(v) == [decisionVector |-> v, justification |-> <<Tok("x")>>]

\* {"score":"high","justification":"x"}
StringScoreObject ==
  <<Tok("{"), Tok("score-key"), Tok("string"), Tok(","),
    Tok("justification-key"), Tok("quote"), Tok("x"), Tok("quote"), Tok("}")>>

\* {"note":"..."}
NoteObject == <<Tok("{"), Tok("note-key"), Tok("string"), Tok("}")>>

Fenced(text) ==
  <<Tok("fence"), Tok("json"), Tok("newline")>> \o text
    \o <<Tok("newline"), Tok("fence")>>

RawPrefixes ==
  { <<>>,
    <<Tok("x"), Tok("newline")>>,
    Fenced(NoteObject) \o <<Tok("newline")>>,
    Fenced(StringScoreObject) \o <<Tok("newline")>>,
    NoteObject \o <<Tok("newline")>>,
    StringScoreObject \o <<Tok("newline")>> }

RawBodies ==
  {Serialize(VoteOf(v), "json") : v \in RawVectors}
    \cup {Serialize(VoteOf(v), "fenced") : v \in RawVectors}
    \cup {Serialize(VoteOf(v), "legacy") : v \in OldFormatVectors}
    \cup {StringScoreObject, NoteObject, <<Tok("x")>>}

RawParserInputs ==
  {[vote |-> [decisionVector |-> <<>>, justification |-> <<>>],
    format |-> "raw", outcomes |-> o, text |-> p \o b] :
      p \in RawPrefixes, b \in RawBodies, o \in OutcomeValues}

NoParserInput == [vote |-> [decisionVector |-> <<>>, justification |-> <<>>],
                  format |-> "none", outcomes |-> NoOutcomes, text |-> <<>>]

\* allOutputs[0] of an empty array (a vector no vote can be)
undefined == <<NaN>>

\* mutant: Math.round in place of Math.floor
averageVectors_Rounded(vectors) ==
  [k \in 1..Len(vectors[1]) |->
     FloorDiv(Add(Mul(2, AddSeq([n \in 1..Len(vectors) |-> At(vectors[n], k)])),
                  Len(vectors)), 2 * Len(vectors))]

averageVectors(vectors) ==
  [k \in 1..Len(vectors[1]) |->
     FloorDiv(AddSeq([n \in 1..Len(vectors) |-> At(vectors[n], k)]), Len(vectors))]

\* weights[Math.floor(i / (vectors.length / weights.length))], i counted from 0
\* mutant: every vector is weighted with the first weight
WeightIndex_First(n, nv, nw) == 1

WeightIndex(n, nv, nw) == (((n - 1) * nw) \div nv) + 1

\* result[k] = sum_n vectors[n][k] * weight / totalWeight, kept as the exact
\* fraction num[k] / den
computeAverageVectors(vectors, weights) ==
  [num |-> [k \in 1..Len(vectors[1]) |->
              AddSeq([n \in 1..Len(vectors) |->
                 Mul(At(vectors[n], k),
                     weights[WeightIndex(n, Len(vectors), Len(weights))])])],
   den |-> SumSeq(weights)]

\* Math.floor(score) of a component of a composite
FloorScore(agg, k) == FloorDiv(agg.num[k], agg.den)

\* the prompt generateJustification builds: the literal vector and the
\* justifications joined
generateJustification(V_total, allJustifications) ==
  [vector |-> V_total, justifications |-> allJustifications]

\* the probes of the connectors (openai-provider.ts:52-60 over modelConfig);
\* a model the table does not list supports neither
supportsAttachments(provider, model) == provider = "OpenAI" /\ model = "gpt-4o"
supportsImages(provider, model) == provider = "OpenAI" /\ model \in {"gpt-4", "gpt-4o"}

\* route.ts:688: which method of the connector a voting call invokes
\* mutant: the probe is not consulted
invocationForm_NoProbe(attachments, provider, model) ==
  IF Len(attachments) > 0 THEN "attachments" ELSE "text"

invocationForm(attachments, provider, model) ==
  IF Len(attachments) > 0 /\ supportsAttachments(provider, model)
  THEN "attachments" ELSE "text"

\* the single-model generate route (unnamed/part_002:294-317): which method
\* of the connector it invokes, "throw" when it throws instead
generateInvocation(attachments, supportsImg, supportsAtt) ==
  IF Len(attachments) > 0
  THEN IF supportsAtt THEN "attachments"
       ELSE IF supportsImg /\ Len(attachments) = 1 /\ attachments[1] = "image"
       THEN "image"
       ELSE "throw"
  ELSE "text"

(* ------------------------------- state -------------------------------- *)
VARIABLES
  body,                        \* the request body (RankAndJustifyInput)
  pc,                          \* the await point the handler is suspended at
  i, j, c,                     \* iteration, model and sample loop counters
  previousIterationResponses,  \* route.ts:614
  iterationPrompt,             \* route.ts:669
  allOutputs,                  \* route.ts:647
  iterationOutputs,            \* route.ts:638
  iterationWeights,            \* route.ts:639
  iterationJustifications,     \* route.ts:640
  finalAggregatedScore,        \* route.ts:631
  finalJustification,          \* route.ts:632
  response,                    \* what NextResponse.json was returned with
  calls,                       \* history: every connector call issued so far
  returns,                     \* history: what every completed call produced
  averaged,                    \* history: every sample reduction (route.ts:753-759)
  aggregated,                  \* history: every aggregation (route.ts:772)
  parserInput,                 \* a text handed to parseModelResponse on its own
  parserOutput,                \* what parseModelResponse returned for it
  suspended,                   \* a second invocation of the handler, waiting at
                               \* an await while this one runs
  providerModels,              \* GET, route.ts:16: one entry per PROVIDERS element
  settled,                     \* history: the providers in the order in which
                               \* their callbacks finished
  modelsResponse,              \* what GET returned
  logFile,                     \* logs/llm-interactions.log (route.ts:521)
  logWritable                  \* whether the log directory and file can be
                               \* created and appended to

vars == <<body, pc, i, j, c, previousIterationResponses, iterationPrompt,
          allOutputs, iterationOutputs, iterationWeights,
          iterationJustifications, finalAggregatedScore, finalJustification,
          response, calls, returns, averaged, aggregated,
          parserInput, parserOutput, suspended,
          providerModels, settled, modelsResponse, logFile, logWritable>>

\* the state of GET /api/generate
getVars == <<providerModels, settled, modelsResponse>>

\* the interaction log and its disk
logVars == <<logFile, logWritable>>

\* everything but the interaction log
handlerVars == <<body, pc, i, j, c, previousIterationResponses, iterationPrompt,
                 allOutputs, iterationOutputs, iterationWeights,
                 iterationJustifications, finalAggregatedScore,
                 finalJustification, response, calls, returns, averaged,
                 aggregated, parserInput, parserOutput, suspended,
                 providerModels, settled, modelsResponse>>

\* route.ts:5
PROVIDERS == <<"Open-source", "OpenAI", "Anthropic">>

\* what a provider's getModels call produces: a list of models or a rejection
ModelNamesOf ==
  [k \in 1..3 |-> <<{<<>>, <<"phi3">>},
                    {<<>>, <<"gpt-4", "gpt-4o">>},
                    {<<"claude-3">>}>>[k]]
GetModelsResults(k) ==
  {[kind |-> "models", models |-> ms] : ms \in ModelNamesOf[k]}
    \cup {[kind |-> "reject", models |-> <<>>]}
NoResult == [kind |-> "none", models |-> <<>>]
LookupFailed == [kind |-> "lookup-failed", models |-> <<>>]

\* the promise of one callback of PROVIDERS.map (route.ts:17-29): state is
\* "idle", "pending" or "fulfilled"; models is what it resolves to, returned
\* is what the provider did
NotAsked == [state |-> "idle", models |-> <<>>, returned |-> NoResult]
Pending == [state |-> "pending", models |-> <<>>, returned |-> NoResult]
Fulfilled(ms, r) == [state |-> "fulfilled", models |-> ms, returned |-> r]

NoModelsResponse == [status |-> 0, error |-> "", models |-> <<>>]

\* what the error text of a response names: a provider, a model, a raw
\* response text (<<>> for none)
NoContext == [provider |-> "", model |-> "", text |-> <<>>]

NoResponse == [status |-> 0, error |-> "", hasScores |-> FALSE,
               scores |-> <<>>, justification |-> "", context |-> NoContext]
EmptyScore == [num |-> <<>>, den |-> 1]
NoPrompt == [base |-> "", feedback |-> <<>>]

\* NextResponse.json({error, scores: [], justification: ''}, {status})
ErrorWithScores(status, kind) ==
  [status |-> status, error |-> kind, hasScores |-> TRUE,
   scores |-> <<>>, justification |-> "", context |-> NoContext]
\* NextResponse.json({error}, {status})
ErrorOnly(status, kind) ==
  [status |-> status, error |-> kind, hasScores |-> FALSE,
   scores |-> <<>>, justification |-> "", context |-> NoContext]

\* route.ts:790-801
SuccessResponse(outcomes, agg, just) ==
  [status |-> 200, error |-> "", hasScores |-> TRUE,
   scores |-> [k \in 1..Len(agg.num) |->
                 [outcome |-> IF outcomes # NoOutcomes THEN outcomes[k] ELSE "unnamed",
                  score |-> FloorScore(agg, k)]],
   justification |-> just, context |-> NoContext]

\* the handler's local variables as one value
Locals ==
  [i |-> i, j |-> j, c |-> c,
   previousIterationResponses |-> previousIterationResponses,
   iterationPrompt |-> iterationPrompt,
   allOutputs |-> allOutputs,
   iterationOutputs |-> iterationOutputs,
   iterationWeights |-> iterationWeights,
   iterationJustifications |-> iterationJustifications,
   finalAggregatedScore |-> finalAggregatedScore,
   finalJustification |-> finalJustification,
   averaged |-> averaged, aggregated |-> aggregated]

InitialLocals ==
  [i |-> 0, j |-> 0, c |-> 0,
   previousIterationResponses |-> <<>>,
   iterationPrompt |-> NoPrompt,
   allOutputs |-> <<>>,
   iterationOutputs |-> <<>>,
   iterationWeights |-> <<>>,
   iterationJustifications |-> <<>>,
   finalAggregatedScore |-> EmptyScore,
   finalJustification |-> "",
   averaged |-> <<>>, aggregated |-> <<>>]

\* the handler is suspended at p (or has returned resp) with locals L
Goto(p, resp, L, cl) ==
  /\ pc' = p
  /\ response' = resp
  /\ calls' = cl
  /\ i' = L.i
  /\ j' = L.j
  /\ c' = L.c
  /\ previousIterationResponses' = L.previousIterationResponses
  /\ iterationPrompt' = L.iterationPrompt
  /\ allOutputs' = L.allOutputs
  /\ iterationOutputs' = L.iterationOutputs
  /\ iterationWeights' = L.iterationWeights
  /\ iterationJustifications' = L.iterationJustifications
  /\ finalAggregatedScore' = L.finalAggregatedScore
  /\ finalJustification' = L.finalJustification
  /\ averaged' = L.averaged
  /\ aggregated' = L.aggregated
  /\ UNCHANGED <<parserInput, parserOutput>>
  /\ UNCHANGED getVars

Return(resp, L, cl) == Goto("done", resp, L, cl)

iterations == OrOne(body.iterations)
models == body.models

\* an invocation of POST: its request, where it waits and its locals.  The
\* handler keeps nothing outside the invocation (route.ts:613-640 are consts
\* and lets inside POST).
Invocation ==
  [body |-> body, pc |-> pc, response |-> response, calls |-> calls,
   returns |-> returns, locals |-> Locals]

NoInvocation ==
  [body |-> [prompt |-> "", models |-> <<>>, iterations |-> 0,
             outcomes |-> NoOutcomes, attachments |-> NoAttachments],
   pc |-> "none", response |-> NoResponse, calls |-> <<>>, returns |-> <<>>,
   locals |-> InitialLocals]

\* two requests in flight at once, each to its own model
ConcurrentInput(k) ==
  [prompt : {<<"Q1", "Q2">>[k]},
   models : {<<[provider |-> "OpenAI", model |-> <<"gpt-4", "gpt-4o">>[k],
                weight |-> 6, count |-> 0]>>},
   iterations : {0, 2}, outcomes : {<<"yes", "no">>},
   attachments : {NoAttachments}]

(* --------------------- the handler, await to await -------------------- *)
\* 'From <provider> - <model>:\nScore: <vector>\nJustification: <text>'
\* (route.ts:744); round, j and sample record where the entry was produced
\* mutant: the entry leaves the decision vector out
formattedResponse_NoScore(m, vector, just, ii, jj, cc) ==
  [provider |-> m.provider, model |-> m.model, score |-> <<>>,
   justification |-> just, round |-> ii, j |-> jj, sample |-> cc]

formattedResponse(m, vector, just, ii, jj, cc) ==
  [provider |-> m.provider, model |-> m.model, score |-> vector,
   justification |-> just, round |-> ii, j |-> jj, sample |-> cc]

\* 'From model <model>:\n<text>' (route.ts:745)
iterationJustification(m, just) == [model |-> m.model, justification |-> just]

VoteCall(L, m) ==
  [target |-> "vote", provider |-> m.provider, model |-> m.model,
   round |-> L.i, j |-> L.j, sample |-> L.c, prompt |-> L.iterationPrompt,
   form |-> invocationForm(body.attachments, m.provider, m.model),
   justifierPrompt |-> generateJustification(EmptyScore, <<>>)]

JustifierCall(L) ==
  [target |-> "justifier", provider |-> "JustifierProvider", model |-> "default-model",
   round |-> L.i, j |-> 0, sample |-> 0, prompt |-> NoPrompt, form |-> "text",
   justifierPrompt |-> generateJustification(L.finalAggregatedScore,
                                             L.iterationJustifications)]

\* route.ts:643-660: the head of the model loop body, up to the await of the
\* provider lookup
EnterModel(L, cl) ==
  LET modelInfo == models[L.j + 1]
      L1 == [L EXCEPT !.allOutputs = <<>>] IN
  IF modelInfo.provider = "" \/ modelInfo.model = ""
     \/ modelInfo.weight < 0 \/ modelInfo.weight > WeightScale
  THEN Return(ErrorOnly(400, "InvalidModel"), L1, cl)
  ELSE Goto("getProvider", NoResponse, L1, cl)

\* mutant: the justifications of the rounds accumulate
StartIteration_KeepJustifications(L, cl) ==
  EnterModel([L EXCEPT !.j = 0, !.iterationOutputs = <<>>,
                       !.iterationWeights = <<>>], cl)

\* route.ts:635-643: the head of the iteration loop body
StartIteration(L, cl) ==
  EnterModel([L EXCEPT !.j = 0, !.iterationOutputs = <<>>,
                       !.iterationWeights = <<>>,
                       !.iterationJustifications = <<>>], cl)

\* route.ts:771-788: the tail of the iteration loop body, up to the await of
\* the justifier lookup or into the next iteration
\* mutant: the justifier is called at the end of every round
FinishIteration_JustifyEveryRound(L, cl) ==
  LET composite == computeAverageVectors(L.iterationOutputs, L.iterationWeights)
      L1 == [L EXCEPT !.finalAggregatedScore = composite,
                      !.aggregated = Append(@, [round |-> L.i,
                                                vectors |-> L.iterationOutputs,
                                                weights |-> L.iterationWeights,
                                                composite |-> composite])] IN
  Goto("getJustifier", NoResponse, L1, cl)

\* mutant: the composite of the first round is kept as the final score
FinishIteration_KeepFirstComposite(L, cl) ==
  LET composite == computeAverageVectors(L.iterationOutputs, L.iterationWeights)
      L1 == [L EXCEPT !.finalAggregatedScore =
                         IF L.i = 0 THEN composite ELSE L.finalAggregatedScore,
                      !.aggregated = Append(@, [round |-> L.i,
                                                vectors |-> L.iterationOutputs,
                                                weights |-> L.iterationWeights,
                                                composite |-> composite])] IN
  IF L1.i = iterations - 1
  THEN Goto("getJustifier", NoResponse, L1, cl)
  ELSE StartIteration([L1 EXCEPT !.i = L1.i + 1], cl)

\* mutant: the composite is computed in the final round only
FinishIteration_NoComposite(L, cl) ==
  LET composite == computeAverageVectors(L.iterationOutputs, L.iterationWeights)
      L1 == [L EXCEPT !.finalAggregatedScore = composite,
                      !.aggregated = Append(@, [round |-> L.i,
                                                vectors |-> L.iterationOutputs,
                                                weights |-> L.iterationWeights,
                                                composite |-> composite])] IN
  IF L.i = iterations - 1
  THEN Goto("getJustifier", NoResponse, L1, cl)
  ELSE StartIteration([L EXCEPT !.i = L.i + 1], cl)

\* mutant: the round counter is not advanced
FinishIteration_SameRound(L, cl) ==
  LET composite == computeAverageVectors(L.iterationOutputs, L.iterationWeights)
      L1 == [L EXCEPT !.finalAggregatedScore = composite] IN
  IF L1.i = iterations - 1
  THEN Goto("getJustifier", NoResponse, L1, cl)
  ELSE StartIteration(L1, cl)

FinishIteration(L, cl) ==
  LET composite == computeAverageVectors(L.iterationOutputs, L.iterationWeights)
      L1 == [L EXCEPT !.finalAggregatedScore = composite,
                      !.aggregated = Append(@, [round |-> L.i,
                                                vectors |-> L.iterationOutputs,
                                                weights |-> L.iterationWeights,
                                                composite |-> composite])] IN
  IF \E k \in 1..Len(L.iterationOutputs) : L.iterationOutputs[k] = undefined
  THEN \* route.ts:985, 990: reading length or [j] of undefined throws
       Return(ErrorWithScores(500, "Exception"), L, cl)
  ELSE IF L1.i = iterations - 1
  THEN Goto("getJustifier", NoResponse, L1, cl)
  ELSE StartIteration([L1 EXCEPT !.i = L1.i + 1], cl)

\* route.ts:753-769: the tail of the model loop body
FinishModel(L, cl) ==
  LET modelInfo == models[L.j + 1]
      count == OrOne(modelInfo.count)
      modelAverage == IF count > 1 THEN averageVectors(L.allOutputs)
                      ELSE IF L.allOutputs = <<>> THEN undefined
                      ELSE L.allOutputs[1]
      L1 == [L EXCEPT !.iterationOutputs = Append(@, modelAverage),
                      !.iterationWeights = Append(@, modelInfo.weight),
                      !.averaged = Append(@, [round |-> L.i, j |-> L.j,
                                              samples |-> L.allOutputs,
                                              average |-> modelAverage])] IN
  IF L1.j + 1 < Len(models)
  THEN EnterModel([L1 EXCEPT !.j = L1.j + 1], cl)
  ELSE FinishIteration(L1, cl)

\* route.ts:686-716: the head of the sample loop body, up to the await of the
\* connector call
\* mutant: one sample more than count
SampleLoop_ExtraSample(L, cl) ==
  LET modelInfo == models[L.j + 1]
      count == OrOne(modelInfo.count) IN
  IF L.c <= count
  THEN Goto("await", NoResponse, L, Append(cl, VoteCall(L, modelInfo)))
  ELSE FinishModel(L, cl)

SampleLoop(L, cl) ==
  LET modelInfo == models[L.j + 1]
      count == OrOne(modelInfo.count) IN
  IF L.c < count
  THEN Goto("await", NoResponse, L, Append(cl, VoteCall(L, modelInfo)))
  ELSE FinishModel(L, cl)

\* mutant: a failed connector call is issued again
OnProviderError_Retry(L, cl) == SampleLoop(L, cl)

\* route.ts:697-708 and 717-728: the connector call rejected; the error text
\* is the message of the connector's error
OnProviderError(L, cl) == Return(ErrorWithScores(400, "ProviderError"), L, cl)

\* route.ts:733-739: the response gave no decision vector; the error text is
\* 'Failed to parse decision vector from model <model>. Response: <text>'
OnParseFailure(L, cl, responseText) ==
  Return([ErrorWithScores(400, "ParseFailure") EXCEPT
            !.context = [provider |-> "", model |-> models[L.j + 1].model,
                         text |-> <<responseText>>]], L, cl)

\* route.ts:547-643
ReceiveUnlogged ==
  /\ pc = "start"
  /\ UNCHANGED <<body, returns, suspended>>
  /\ LET totalWeights == SumSeq([k \in 1..Len(models) |-> models[k].weight]) IN
     IF body.prompt = "" \/ Len(models) = 0
     THEN Return(ErrorOnly(400, "InvalidInput"), Locals, calls)
     ELSE IF totalWeights <= 0 \/ totalWeights > Len(models) * WeightScale
     THEN Return(ErrorOnly(400, "InvalidWeights"), Locals, calls)
     ELSE IF 0 < iterations
     THEN StartIteration(Locals, calls)
     ELSE Return(SuccessResponse(body.outcomes, finalAggregatedScore,
                                 finalJustification), Locals, calls)

\* LLMFactory.getProvider (llm-factory.ts:7-18)
getProvider(providerName) == providerName \in {"Open-source", "OpenAI", "Anthropic"}

\* route.ts:660-716: the provider lookup resolves, the prompt of this model
\* is composed and the first sample is called
ProviderResolvedUnlogged ==
  /\ pc = "getProvider"
  /\ UNCHANGED <<body, returns, suspended>>
  /\ IF ~getProvider(models[j + 1].provider)
     THEN Return(ErrorOnly(400, "UnsupportedProvider"), Locals, calls)
     ELSE SampleLoop([Locals EXCEPT
            !.c = 0,
            !.iterationPrompt =
               [base |-> body.prompt,
                feedback |-> IF i > 0 /\ Len(previousIterationResponses) > 0
                             THEN previousIterationResponses ELSE <<>>]], calls)

\* route.ts:716-769: a voting call returns or throws; its response is parsed
\* and the loops advance to the next await
CallReturnsUnlogged(r) ==
  /\ pc = "await"
  /\ r \in ConnectorResults(models[j + 1].provider)
  /\ UNCHANGED <<body, suspended>>
  /\ returns' = Append(returns, r)
  /\ LET modelInfo == models[j + 1]
         parsed == parseModelResponse(r, body.outcomes)
         L1 == [Locals EXCEPT
                  !.allOutputs = Append(@, parsed.decisionVector),
                  !.iterationJustifications =
                     IF parsed.justification # ""
                     THEN Append(@, iterationJustification(modelInfo, parsed.justification))
                     ELSE @,
                  !.previousIterationResponses =
                     IF parsed.justification # "" /\ i < iterations - 1
                     THEN Append(@, formattedResponse(modelInfo, parsed.decisionVector,
                                                      parsed.justification, i, j, c))
                     ELSE @,
                  !.c = c + 1] IN
     IF r.kind = "throw"
     THEN OnProviderError(Locals, calls)
     ELSE IF ~parsed.valid
     THEN OnParseFailure(Locals, calls, r)
     ELSE SampleLoop(L1, calls)

\* route.ts:776-784: the justifier lookup resolves (JUSTIFIER_MODEL names a
\* provider the factory knows, or the factory throws) and the justifier is called
JustifierResolvedUnlogged(known) ==
  /\ pc = "getJustifier"
  /\ UNCHANGED <<body, returns, suspended>>
  /\ IF ~known
     THEN Return(ErrorWithScores(500, "Exception"), Locals, calls)
     ELSE Goto("awaitJustifier", NoResponse, Locals, Append(calls, JustifierCall(Locals)))

\* route.ts:779-814: the justifier call returns or throws and the handler returns
JustifierReturnsUnlogged(r) ==
  /\ pc = "awaitJustifier"
  /\ UNCHANGED <<body, suspended>>
  /\ returns' = Append(returns, r)
  /\ IF r = "throw"
     THEN Return(ErrorWithScores(500, "Exception"), Locals, calls)
     ELSE Return(SuccessResponse(body.outcomes, finalAggregatedScore, r),
                 [Locals EXCEPT !.finalJustification = r], calls)

(* ------------------------- interaction logging ------------------------ *)
\* mutant: an error of the file system escapes logInteraction
logInteraction_NoCatch(message, writable) ==
  [written |-> IF writable THEN <<message>> ELSE <<>>, threw |-> ~writable]

\* route.ts:512-533: the message is appended to the log file; an error of
\* mkdirSync or appendFileSync is caught and reported on the console only
logInteraction(message, writable) ==
  [written |-> IF writable THEN <<message>> ELSE <<>>, threw |-> FALSE]

\* route.ts:710: 'Prompt to <provider> - <model>:\n<prompt>\n'
PromptMessage(m, prompt) ==
  [kind |-> "Prompt to", provider |-> m.provider, model |-> m.model,
   text |-> <<prompt>>]
\* route.ts:716: 'Response from <provider> - <model>:\n<responseText>\n'
ResponseMessage(m, r) ==
  [kind |-> "Response from", provider |-> m.provider, model |-> m.model,
   text |-> <<r>>]
\* route.ts:778 and 785
JustifierMessage(kind, text) ==
  [kind |-> kind, provider |-> "Justifier", model |-> "", text |-> <<text>>]

RECURSIVE Written(_)
Written(messages) ==
  IF messages = <<>> THEN <<>>
  ELSE logInteraction(Head(messages), logWritable).written
         \o Written(Tail(messages))

LogThrows(messages) ==
  \E k \in 1..Len(messages) : logInteraction(messages[k], logWritable).threw

\* a step of the handler that calls logInteraction on the messages: if a call
\* threw, the enclosing catch would take over
Logged(messages, step, caught) ==
  IF LogThrows(messages)
  THEN caught /\ UNCHANGED logVars
  ELSE /\ step
       /\ logFile' = logFile \o Written(messages)
       /\ UNCHANGED logWritable

\* route.ts:535-660: a request arrives; nothing is logged before the first
\* connector call
Receive == ReceiveUnlogged /\ UNCHANGED logVars

\* route.ts:660-716 with the logInteraction of line 710 (689 with
\* attachments), which is inside the try of line 658
ProviderResolved ==
  /\ pc = "getProvider"
  /\ LET modelInfo == models[j + 1]
         prompt == [base |-> body.prompt,
                    feedback |-> IF i > 0 /\ Len(previousIterationResponses) > 0
                                 THEN previousIterationResponses ELSE <<>>]
         messages == IF getProvider(modelInfo.provider) /\ 0 < OrOne(modelInfo.count)
                     THEN <<PromptMessage(modelInfo, prompt)>> ELSE <<>> IN
     Logged(messages, ProviderResolvedUnlogged,
            /\ pc = "getProvider"
            /\ UNCHANGED <<body, returns, suspended>>
            /\ Return(ErrorOnly(400, "LogError"), Locals, calls))

\* route.ts:716-769 with the logInteraction of line 716 (696), which is
\* inside the try of the connector call, and that of the next sample's prompt
CallReturns(r) ==
  /\ pc = "await"
  /\ LET modelInfo == models[j + 1]
         parsed == parseModelResponse(r, body.outcomes)
         messages ==
           (IF r.kind # "throw" THEN <<ResponseMessage(modelInfo, r)>> ELSE <<>>)
             \o (IF r.kind # "throw" /\ parsed.valid /\ c + 1 < OrOne(modelInfo.count)
                 THEN <<PromptMessage(modelInfo, iterationPrompt)>> ELSE <<>>) IN
     Logged(messages, CallReturnsUnlogged(r),
            /\ pc = "await"
            /\ r \in ConnectorResults(modelInfo.provider)
            /\ UNCHANGED <<body, suspended>>
            /\ returns' = Append(returns, r)
            /\ Return(ErrorWithScores(400, "LogError"), Locals, calls))

\* route.ts:776-784 with the logInteraction of line 778
JustifierResolved(known) ==
  /\ pc = "getJustifier"
  /\ Logged(IF known THEN <<JustifierMessage("Prompt to", body.prompt)>> ELSE <<>>,
            JustifierResolvedUnlogged(known),
            /\ pc = "getJustifier"
            /\ UNCHANGED <<body, returns, suspended>>
            /\ Return(ErrorWithScores(500, "Exception"), Locals, calls))

\* route.ts:779-814 with the logInteraction of line 785
JustifierReturns(r) ==
  /\ pc = "awaitJustifier"
  /\ Logged(IF r # "throw" THEN <<JustifierMessage("Response from", r)>> ELSE <<>>,
            JustifierReturnsUnlogged(r),
            /\ pc = "awaitJustifier"
            /\ UNCHANGED <<body, suspended>>
            /\ returns' = Append(returns, r)
            /\ Return(ErrorWithScores(500, "Exception"), Locals, calls))

\* GET /api/generate has not been called
NoGet ==
  /\ providerModels = [k \in 1..Len(PROVIDERS) |-> NotAsked]
  /\ settled = <<>>
  /\ modelsResponse = NoModelsResponse

\* the log is empty and its directory can be written
EmptyLog ==
  /\ logFile = <<>>
  /\ logWritable = TRUE

Init ==
  /\ body \in RankAndJustifyInput
  /\ pc = "start"
  /\ response = NoResponse
  /\ calls = <<>>
  /\ returns = <<>>
  /\ i = 0 /\ j = 0 /\ c = 0
  /\ previousIterationResponses = <<>>
  /\ iterationPrompt = NoPrompt
  /\ allOutputs = <<>>
  /\ iterationOutputs = <<>>
  /\ iterationWeights = <<>>
  /\ iterationJustifications = <<>>
  /\ finalAggregatedScore = EmptyScore
  /\ finalJustification = ""
  /\ averaged = <<>>
  /\ aggregated = <<>>
  /\ parserInput = NoParserInput
  /\ parserOutput = Null
  /\ suspended = NoInvocation
  /\ NoGet
  /\ EmptyLog

\* the handler receives a request that may carry attachments
InitAttachments ==
  /\ body \in AttachmentInput
  /\ pc = "start"
  /\ response = NoResponse
  /\ calls = <<>>
  /\ returns = <<>>
  /\ i = 0 /\ j = 0 /\ c = 0
  /\ previousIterationResponses = <<>>
  /\ iterationPrompt = NoPrompt
  /\ allOutputs = <<>>
  /\ iterationOutputs = <<>>
  /\ iterationWeights = <<>>
  /\ iterationJustifications = <<>>
  /\ finalAggregatedScore = EmptyScore
  /\ finalJustification = ""
  /\ averaged = <<>>
  /\ aggregated = <<>>
  /\ parserInput = NoParserInput
  /\ parserOutput = Null
  /\ suspended = NoInvocation
  /\ NoGet
  /\ EmptyLog

\* parseModelResponse on its own: a text is given
InitParser ==
  /\ parserInput \in ParserInputs
  /\ parserOutput = Null
  /\ body = [prompt |-> "Q", models |-> <<>>, iterations |-> 0,
             outcomes |-> parserInput.outcomes, attachments |-> NoAttachments]
  /\ pc = "parse"
  /\ suspended = NoInvocation
  /\ response = NoResponse
  /\ calls = <<>>
  /\ returns = <<>>
  /\ i = 0 /\ j = 0 /\ c = 0
  /\ previousIterationResponses = <<>>
  /\ iterationPrompt = NoPrompt
  /\ allOutputs = <<>>
  /\ iterationOutputs = <<>>
  /\ iterationWeights = <<>>
  /\ iterationJustifications = <<>>
  /\ finalAggregatedScore = EmptyScore
  /\ finalJustification = ""
  /\ averaged = <<>>
  /\ aggregated = <<>>
  /\ NoGet
  /\ EmptyLog

\* parseModelResponse on its own: any text is given
InitRawParser ==
  /\ parserInput \in RawParserInputs
  /\ parserOutput = Null
  /\ body = [prompt |-> "Q", models |-> <<>>, iterations |-> 0,
             outcomes |-> parserInput.outcomes, attachments |-> NoAttachments]
  /\ pc = "parse"
  /\ suspended = NoInvocation
  /\ response = NoResponse
  /\ calls = <<>>
  /\ returns = <<>>
  /\ i = 0 /\ j = 0 /\ c = 0
  /\ previousIterationResponses = <<>>
  /\ iterationPrompt = NoPrompt
  /\ allOutputs = <<>>
  /\ iterationOutputs = <<>>
  /\ iterationWeights = <<>>
  /\ iterationJustifications = <<>>
  /\ finalAggregatedScore = EmptyScore
  /\ finalJustification = ""
  /\ averaged = <<>>
  /\ aggregated = <<>>
  /\ NoGet
  /\ EmptyLog

\* route.ts:818-963: the text is parsed
Parse ==
  /\ pc = "parse"
  /\ pc' = "parsed"
  /\ parserOutput' = parseModelResponse(ExtractResponse(parserInput.text),
                                        parserInput.outcomes)
  /\ UNCHANGED <<body, i, j, c, previousIterationResponses, iterationPrompt,
                 allOutputs, iterationOutputs, iterationWeights,
                 iterationJustifications, finalAggregatedScore,
                 finalJustification, response, calls, returns, averaged,
                 aggregated, parserInput, suspended>>
  /\ UNCHANGED getVars
  /\ UNCHANGED logVars

\* two requests have arrived; the handler starts on the first
InitConcurrent ==
  /\ body \in ConcurrentInput(1)
  /\ suspended \in {[NoInvocation EXCEPT !.body = b, !.pc = "start"] :
                       b \in ConcurrentInput(2)}
  /\ pc = "start"
  /\ response = NoResponse
  /\ calls = <<>>
  /\ returns = <<>>
  /\ i = 0 /\ j = 0 /\ c = 0
  /\ previousIterationResponses = <<>>
  /\ iterationPrompt = NoPrompt
  /\ allOutputs = <<>>
  /\ iterationOutputs = <<>>
  /\ iterationWeights = <<>>
  /\ iterationJustifications = <<>>
  /\ finalAggregatedScore = EmptyScore
  /\ finalJustification = ""
  /\ averaged = <<>>
  /\ aggregated = <<>>
  /\ parserInput = NoParserInput
  /\ parserOutput = Null
  /\ NoGet
  /\ EmptyLog

\* mutant: previousIterationResponses is kept outside the invocation
Switch_SharedFeedback ==
  /\ suspended.pc \notin {"none", "done"}
  /\ suspended' = Invocation
  /\ body' = suspended.body
  /\ returns' = suspended.returns
  /\ Goto(suspended.pc, suspended.response,
          [suspended.locals EXCEPT
             !.previousIterationResponses = previousIterationResponses],
          suspended.calls)
  /\ UNCHANGED logVars

\* the event loop: this invocation waits at its await (or has returned) and
\* the continuation of the other invocation runs
Switch ==
  /\ suspended.pc \notin {"none", "done"}
  /\ suspended' = Invocation
  /\ body' = suspended.body
  /\ returns' = suspended.returns
  /\ Goto(suspended.pc, suspended.response, suspended.locals, suspended.calls)
  /\ UNCHANGED logVars

Next ==
  \/ Receive
  \/ ProviderResolved
  \/ \E r \in AllConnectorResults : CallReturns(r)
  \/ \E known \in BOOLEAN : JustifierResolved(known)
  \/ \E r \in JustifierResults : JustifierReturns(r)

Spec == Init /\ [][Next]_vars

\* The event loop runs every continuation that is ready (Receive,
\* ProviderResolved, JustifierResolved), and every connector call eventually
\* returns or throws (CallReturns, JustifierReturns): at most one of these is
\* enabled at a time, so this is weak fairness of Next.
SpecFair == Init /\ [][Next]_vars /\ WF_vars(Next)

SpecAttachments == InitAttachments /\ [][Next]_vars

SpecParser == InitParser /\ [][Parse]_vars

SpecRawParser == InitRawParser /\ [][Parse]_vars

NextConcurrent == Next \/ Switch

SpecConcurrent == InitConcurrent /\ [][NextConcurrent]_vars

(* --------------- requests whose counts are not validated -------------- *)
\* iterations and count as a client may send them: missing (0), negative or
\* more than one
UnvalidatedModelInput(k) ==
  [provider : {Providers[k]}, model : {ModelNames[k]}, weight : {6},
   count : {-1, 0}]

UnvalidatedInput ==
  [prompt : {"Q"},
   models : UNION {[1..n -> UNION {UnvalidatedModelInput(k) : k \in 1..2}] : n \in 1..2},
   iterations : {-1, 0, 2},
   outcomes : OutcomeValues,
   attachments : {NoAttachments}]

InitUnvalidated ==
  /\ body \in {r \in UnvalidatedInput :
                 \A k \in 1..Len(r.models) : r.models[k].provider = Providers[k]}
  /\ pc = "start"
  /\ response = NoResponse
  /\ calls = <<>>
  /\ returns = <<>>
  /\ i = 0 /\ j = 0 /\ c = 0
  /\ previousIterationResponses = <<>>
  /\ iterationPrompt = NoPrompt
  /\ allOutputs = <<>>
  /\ iterationOutputs = <<>>
  /\ iterationWeights = <<>>
  /\ iterationJustifications = <<>>
  /\ finalAggregatedScore = EmptyScore
  /\ finalJustification = ""
  /\ averaged = <<>>
  /\ aggregated = <<>>
  /\ parserInput = NoParserInput
  /\ parserOutput = Null
  /\ suspended = NoInvocation
  /\ NoGet
  /\ EmptyLog

SpecUnvalidated == InitUnvalidated /\ [][Next]_vars

(* ------------------- the handler with a failing log ------------------- *)
LoggingInput ==
  [prompt : {"Q"},
   models : {<<[provider |-> "OpenAI", model |-> "gpt-4", weight |-> 6, count |-> 0]>>,
             <<[provider |-> "OpenAI", model |-> "gpt-4", weight |-> 6, count |-> 2],
               [provider |-> "Anthropic", model |-> "claude-3", weight |-> 6,
                count |-> 0]>>},
   iterations : {0},
   outcomes : {<<"yes", "no">>},
   attachments : {NoAttachments}]

\* a request arrives; the log may or may not be writable
InitLogging ==
  /\ body \in LoggingInput
  /\ pc = "start"
  /\ response = NoResponse
  /\ calls = <<>>
  /\ returns = <<>>
  /\ i = 0 /\ j = 0 /\ c = 0
  /\ previousIterationResponses = <<>>
  /\ iterationPrompt = NoPrompt
  /\ allOutputs = <<>>
  /\ iterationOutputs = <<>>
  /\ iterationWeights = <<>>
  /\ iterationJustifications = <<>>
  /\ finalAggregatedScore = EmptyScore
  /\ finalJustification = ""
  /\ averaged = <<>>
  /\ aggregated = <<>>
  /\ parserInput = NoParserInput
  /\ parserOutput = Null
  /\ suspended = NoInvocation
  /\ NoGet
  /\ logFile = <<>>
  /\ logWritable \in BOOLEAN

\* the environment: the log directory or file becomes unwritable (removed,
\* read-only, disk full) or writable again
LogDiskChanges ==
  /\ logWritable' = ~logWritable
  /\ UNCHANGED <<handlerVars, logFile>>

NextLogging == Next \/ LogDiskChanges

SpecLogging == InitLogging /\ [][NextLogging]_vars

\* the steps of the handler apart from its logging
NextUnlogged ==
  \/ ReceiveUnlogged
  \/ ProviderResolvedUnlogged
  \/ \E r \in AllConnectorResults : CallReturnsUnlogged(r)
  \/ \E known \in BOOLEAN : JustifierResolvedUnlogged(known)
  \/ \E r \in JustifierResults : JustifierReturnsUnlogged(r)

(* ------------------------- GET /api/generate -------------------------- *)
\* everything GET leaves alone
postVars == <<body, i, j, c, previousIterationResponses, iterationPrompt,
              allOutputs, iterationOutputs, iterationWeights,
              iterationJustifications, finalAggregatedScore,
              finalJustification, response, calls, returns, averaged,
              aggregated, parserInput, parserOutput, suspended,
              logFile, logWritable>>

\* route.ts:22-28: the callback returns the provider's models, or [] from
\* its catch
CallbackModels(r) == IF r.kind = "models" THEN r.models ELSE <<>>

\* mutant: the results are taken in the order in which the calls finished
ResultOrder_AsSettled == settled

\* route.ts:16: Promise.all resolves to the callbacks' results in the order
\* of PROVIDERS
ResultOrder == [k \in 1..Len(PROVIDERS) |-> k]

\* route.ts:33: pm.models.map(model => ({ provider: pm.provider, model }))
WithProvider(k, ms) ==
  [n \in 1..Len(ms) |-> [provider |-> PROVIDERS[k], model |-> ms[n]]]

\* route.ts:32-34: providerModels.flatMap
RECURSIVE FlatMap(_, _)
FlatMap(pm, order) ==
  IF order = <<>> THEN <<>>
  ELSE WithProvider(Head(order), pm[Head(order)].models)
         \o FlatMap(pm, Tail(order))

\* mutant: the request fails as soon as one provider has no model
NoModelsAvailable_FromSomeProvider(allModels) ==
  \E k \in 1..Len(PROVIDERS) : providerModels[k].models = <<>>

\* route.ts:38
NoModelsAvailable(allModels) == Len(allModels) = 0

FetchingModelsError ==
  [status |-> 500, error |-> "An error occurred while fetching models.",
   models |-> <<>>]

\* route.ts:12-30: PROVIDERS.map runs every callback up to its first await:
\* the provider is looked up (which may throw) and getModels is called
GET ==
  /\ pc = "start"
  /\ \E found \in [1..Len(PROVIDERS) -> BOOLEAN] :
       /\ providerModels' =
            [k \in 1..Len(PROVIDERS) |->
               IF found[k] THEN Pending ELSE Fulfilled(<<>>, LookupFailed)]
       /\ settled' = SelectSeq(ResultOrder, LAMBDA k : ~found[k])
  /\ pc' = "models"
  /\ UNCHANGED <<postVars, modelsResponse>>

\* route.ts:22-28: the getModels call of provider k returns or rejects
getModelsSettles(k, r) ==
  /\ pc = "models"
  /\ providerModels[k].state = "pending"
  /\ providerModels' =
       [providerModels EXCEPT ![k] = Fulfilled(CallbackModels(r), r)]
  /\ settled' = Append(settled, k)
  /\ UNCHANGED <<pc, postVars, modelsResponse>>

\* route.ts:32-46: every callback has finished
RespondModels ==
  /\ pc = "models"
  /\ \A k \in 1..Len(PROVIDERS) : providerModels[k].state = "fulfilled"
  /\ LET allModels == FlatMap(providerModels, ResultOrder) IN
       modelsResponse' =
         IF NoModelsAvailable(allModels) THEN FetchingModelsError
         ELSE [status |-> 200, error |-> "", models |-> allModels]
  /\ pc' = "done"
  /\ UNCHANGED <<postVars, providerModels, settled>>

\* GET /api/generate is requested
InitModels ==
  /\ body = NoInvocation.body
  /\ pc = "start"
  /\ response = NoResponse
  /\ calls = <<>>
  /\ returns = <<>>
  /\ i = 0 /\ j = 0 /\ c = 0
  /\ previousIterationResponses = <<>>
  /\ iterationPrompt = NoPrompt
  /\ allOutputs = <<>>
  /\ iterationOutputs = <<>>
  /\ iterationWeights = <<>>
  /\ iterationJustifications = <<>>
  /\ finalAggregatedScore = EmptyScore
  /\ finalJustification = ""
  /\ averaged = <<>>
  /\ aggregated = <<>>
  /\ parserInput = NoParserInput
  /\ parserOutput = Null
  /\ suspended = NoInvocation
  /\ NoGet
  /\ EmptyLog

NextModels ==
  \/ GET
  \/ \E k \in 1..Len(PROVIDERS) :
       \E r \in GetModelsResults(k) : getModelsSettles(k, r)
  \/ RespondModels

SpecModels == InitModels /\ [][NextModels]_vars

(* ---------------------------------------------------------------------- *)
(*                               the claims                               *)
(* ---------------------------------------------------------------------- *)
\* A valid Vote as the design describes it (spec 3 and 4.1), stated without
\* the parser: an object was extracted, score is an array of numbers of the
\* expected length that sums to 1,000,000, justification is a string.
IsValidVote(r, outcomes) ==
  /\ r.kind = "text"
  /\ r.found /\ r.scoreIsArray /\ r.justificationIsString
  /\ \A k \in 1..Len(r.score) : r.score[k] # NaN
  /\ (outcomes # NoOutcomes => Len(r.score) = Len(outcomes))
  /\ SumSeq(r.score) = Million

IsVote(n) == calls[n].target = "vote"
Completed == 1..Len(returns)
InvalidRequestKinds == {"InvalidInput", "InvalidWeights", "InvalidModel"}
Failed == response.status # 0 /\ response.status # 200
Succeeded == response.status = 200

\* C1: once a voting call throws or its response is not a valid vote, that
\* call is the last connector call of the request (no retry, no further
\* sample, model or round, no justifier call) and the request has ended with
\* an error result whose scores are empty.
C1_FailFast ==
  \A n \in Completed :
    (IsVote(n) /\ ~IsValidVote(returns[n], body.outcomes)) =>
       /\ n = Len(calls)
       /\ pc = "done"
       /\ Failed
       /\ response.error \in {"ProviderError", "ParseFailure"}
       /\ response.scores = <<>>

\* a second or later voting call failed while rounds were still to come
C1_Witness ==
  /\ pc = "done"
  /\ Len(returns) >= 2
  /\ IsVote(Len(returns))
  /\ ~IsValidVote(returns[Len(returns)], body.outcomes)
  /\ returns[Len(returns)].kind = "text"
  /\ i < iterations - 1

\* C2: a request rejected as InvalidRequest has issued no connector call.
C2_RejectedBeforeAnyCall ==
  response.error \in InvalidRequestKinds => calls = <<>>

BadWeights ==
  \/ \E k \in 1..Len(models) : models[k].weight < 0 \/ models[k].weight > WeightScale
  \/ SumSeq([k \in 1..Len(models) |-> models[k].weight]) <= 0
  \/ SumSeq([k \in 1..Len(models) |-> models[k].weight]) > Len(models) * WeightScale

\* C3: the feedback of every prompt of round i > 0 holds entries produced in
\* round i-1 only.
C3_FeedbackFromPreviousRoundOnly ==
  \A n \in 1..Len(calls) :
    (IsVote(n) /\ calls[n].round > 0) =>
       \A e \in 1..Len(calls[n].prompt.feedback) :
          calls[n].prompt.feedback[e].round = calls[n].round - 1

\* the feedback entry the design asks for from completed call n (spec 4.4)
EntryOf(n) ==
  [provider |-> calls[n].provider, model |-> calls[n].model,
   score |-> returns[n].score, justification |-> returns[n].justification,
   round |-> calls[n].round, j |-> calls[n].j, sample |-> calls[n].sample]

\* call n is a completed voting call of round r that returned a valid vote
IsVoteOfRound(n, r) ==
  /\ n \in Completed
  /\ IsVote(n)
  /\ calls[n].round = r
  /\ IsValidVote(returns[n], body.outcomes)

VotesOfRound(r) == {n \in Completed : IsVoteOfRound(n, r)}

\* the entries of the votes of round r among calls 1..n that carry a
\* justification text, in call order
RECURSIVE JustifiedEntries(_, _)
JustifiedEntries(r, n) ==
  IF n = 0 THEN <<>>
  ELSE IF IsVoteOfRound(n, r) /\ returns[n].justification # ""
       THEN Append(JustifiedEntries(r, n - 1), EntryOf(n))
       ELSE JustifiedEntries(r, n - 1)

FromRound(feedback, r) ==
  LET Test(e) == e.round = r IN SelectSeq(feedback, Test)

InListOrder(feedback) ==
  \A p, q \in 1..Len(feedback) :
     p < q => \/ feedback[p].j < feedback[q].j
              \/ feedback[p].j = feedback[q].j /\ feedback[p].sample < feedback[q].sample

NumberOfCalls(target) == Cardinality({n \in 1..Len(calls) : calls[n].target = target})

\* C5: a justifier call is the last connector call of the request, belongs to
\* the final round and comes after every voting call of the final round has
\* completed; a successful request has made exactly one, and its result's
\* justification is what that call returned.
C5_OneJustifierCallAtTheEnd ==
  /\ \A n \in 1..Len(calls) :
        calls[n].target = "justifier" =>
           /\ n = Len(calls)
           /\ calls[n].round = iterations - 1
           /\ Cardinality(VotesOfRound(iterations - 1)) = SumSeq(CountsOf(models))
           /\ \A m \in 1..(n - 1) : IsVote(m) /\ m \in Completed
  /\ Succeeded =>
        /\ NumberOfCalls("justifier") = 1
        /\ Len(returns) = Len(calls)
        /\ response.justification = returns[Len(returns)]

C5_Witness ==
  /\ Succeeded
  /\ iterations >= 2
  /\ Len(models) >= 2
  /\ response.justification = "J"

\* the per-model vector the sample reduction of round r produced for model jj
AverageOf(r, jj) ==
  LET a == CHOOSE x \in 1..Len(averaged) :
                averaged[x].round = r /\ averaged[x].j = jj
  IN averaged[a].average

\* C6: the composite of every round is, for every outcome index k, the sum
\* over the models of avg_j[k] * w_j divided by the sum of the weights, where
\* avg_j is the sample-averaged vector of model j and w_j the weight of that
\* same model; two models of equal weight with [600000,400000] and
\* [400000,600000] give [500000,500000].  (Arithmetic is JavaScript's: a
\* component that a vector lacks makes that component of the composite NaN.)
C6_WeightedMean ==
  /\ \A a \in 1..Len(aggregated) :
       LET g == aggregated[a] IN
       /\ Len(g.vectors) = Len(models)
       /\ \A n \in 1..Len(models) : g.vectors[n] = AverageOf(g.round, n - 1)
       /\ g.composite.den = SumSeq([n \in 1..Len(models) |-> models[n].weight])
       /\ g.composite.den > 0
       /\ Len(g.composite.num) = Len(g.vectors[1])
       /\ \A k \in 1..Len(g.composite.num) :
             g.composite.num[k] =
               AddSeq([n \in 1..Len(models) |->
                         Mul(At(g.vectors[n], k), models[n].weight)])
  /\ LET e == computeAverageVectors(<<<<600000, 400000>>, <<400000, 600000>>>>, <<5, 5>>)
     IN \A k \in 1..2 : e.num[k] = 500000 * e.den

\* a round of two models of different weights and different vectors
C6_Witness ==
  \E a \in 1..Len(aggregated) :
    LET g == aggregated[a] IN
    /\ Len(g.vectors) = 2
    /\ g.weights[1] # g.weights[2]
    /\ g.vectors[1] # g.vectors[2]
    /\ \A k \in 1..Len(g.composite.num) : g.composite.num[k] # NaN
    /\ Len(g.composite.num) = 2

\* the vectors of the valid votes of model jj in round r among calls 1..n,
\* in call order
RECURSIVE SamplesOf(_, _, _)
SamplesOf(r, jj, n) ==
  IF n = 0 THEN <<>>
  ELSE IF IsVoteOfRound(n, r) /\ calls[n].j = jj
       THEN Append(SamplesOf(r, jj, n - 1), returns[n].score)
       ELSE SamplesOf(r, jj, n - 1)

\* C7: the per-model vector of a model with n samples in a round is, for every
\* outcome index k, floor((sum of the n samples' k-th components) / n); for
\* n = 1 it is the sample unchanged.
C7_FlooredMean ==
  \A a \in 1..Len(averaged) :
    LET g == averaged[a]
        n == Len(g.samples) IN
    /\ n = OrOne(models[g.j + 1].count)
    /\ g.samples = SamplesOf(g.round, g.j, Len(returns))
    /\ n = 1 => g.average = g.samples[1]
    /\ n > 1 =>
         /\ Len(g.average) = Len(g.samples[1])
         /\ \A k \in 1..Len(g.average) :
               LET sum == AddSeq([s \in 1..n |-> At(g.samples[s], k)]) IN
               g.average[k] = IF sum = NaN THEN NaN ELSE sum \div n

\* two samples whose component sums are odd, so that the floor shows
C7_Witness ==
  \E a \in 1..Len(averaged) :
    LET g == averaged[a] IN
    /\ Len(g.samples) = 2
    /\ Len(g.average) = 2
    /\ g.average[1] # NaN /\ g.average[2] # NaN
    /\ g.average[1] * 2 # g.samples[1][1] + g.samples[2][1]

PerModelVector(r, jj) ==
  IF OrOne(models[jj + 1].count) > 1
  THEN averageVectors(SamplesOf(r, jj, Len(returns)))
  ELSE SamplesOf(r, jj, Len(returns))[1]

CompositeOfRound(r) ==
  computeAverageVectors([n \in 1..Len(models) |-> PerModelVector(r, n - 1)],
                        [n \in 1..Len(models) |-> models[n].weight])

IsDecisionVector(v) ==
  /\ SumSeq(v) = Million
  /\ body.outcomes # NoOutcomes => Len(v) = Len(body.outcomes)

C10_RejectedIffBadWeights ==
  (pc = "done" /\ body.prompt # "" /\ Len(models) > 0) =>
     (response.error \in InvalidRequestKinds <=> BadWeights)

\* C11: rounds are strictly sequential.  The aggregator has run exactly once
\* for every round that ended, in round order, over the vectors of all models
\* of that round; while the handler works on round i exactly the composites of
\* rounds 0..i-1 exist; every call of a round > 0 comes after every voting
\* call of the round before, all of which had returned a valid vote; the
\* justifier call comes after the composite of the final round.
C11_RoundsAreSequential ==
  /\ \A a \in 1..Len(aggregated) :
        /\ aggregated[a].round = a - 1
        /\ Len(aggregated[a].vectors) = Len(models)
        /\ Cardinality(VotesOfRound(a - 1)) = SumSeq(CountsOf(models))
  /\ pc \in {"getProvider", "await"} => Len(aggregated) = i
  /\ pc \in {"getJustifier", "awaitJustifier"} => Len(aggregated) = i + 1
  /\ \A n \in 1..Len(calls) :
        /\ calls[n].round <= i
        /\ \A m \in 1..Len(calls) : m < n => calls[m].round <= calls[n].round
        /\ calls[n].target = "justifier" => Len(aggregated) = calls[n].round + 1
        /\ (IsVote(n) /\ calls[n].round > 0) =>
              /\ Len(aggregated) >= calls[n].round
              /\ Cardinality({m \in 1..(n - 1) : IsVoteOfRound(m, calls[n].round - 1)})
                    = SumSeq(CountsOf(models))

\* a call of a second round of two models has been issued
C11_Witness ==
  /\ Len(models) = 2
  /\ pc = "await"
  /\ i >= 1
  /\ calls[Len(calls)].j = 1

VoteCallsOf(jj) == {n \in 1..Len(calls) : IsVote(n) /\ calls[n].j = jj}

Before(a, b) ==
  \/ a.round < b.round
  \/ a.round = b.round /\ a.j < b.j
  \/ a.round = b.round /\ a.j = b.j /\ a.sample < b.sample

\* C12: a successful request of R rounds has issued exactly R * count_j voting
\* calls to model j (count 1 when omitted); voting calls are issued in round
\* order, inside a round in model-list order, the samples of a model one
\* after the other, each to the provider and model of its list entry.
C12_CallsPerModel ==
  /\ Succeeded =>
        \A jj \in 0..(Len(models) - 1) :
           Cardinality(VoteCallsOf(jj)) = iterations * OrOne(models[jj + 1].count)
  /\ \A n \in 1..Len(calls) :
        IsVote(n) =>
          /\ calls[n].j \in 0..(Len(models) - 1)
          /\ calls[n].provider = models[calls[n].j + 1].provider
          /\ calls[n].model = models[calls[n].j + 1].model
          /\ calls[n].sample \in 0..(OrOne(models[calls[n].j + 1].count) - 1)
          /\ \A m \in 1..(n - 1) : IsVote(m) /\ Before(calls[m], calls[n])

\* a success after two rounds of two models, one of them sampled twice
C12_Witness ==
  /\ Succeeded
  /\ iterations = 2
  /\ Len(models) = 2
  /\ \E k \in 1..2 : OrOne(models[k].count) = 2

\* no model of the request supports attachments or the single-image form
NoCapableModel ==
  \A k \in 1..Len(models) :
     /\ ~supportsAttachments(models[k].provider, models[k].model)
     /\ ~supportsImages(models[k].provider, models[k].model)

\* C13: a request with attachments none of whose models supports attachments
\* or images does not end with a success computed from text-only calls.
C13_CapabilityMismatch ==
  (Len(body.attachments) > 0 /\ NoCapableModel) => ~Succeeded

\* C14: an error result caused by a connector failure or a parse failure
\* names the provider and the model of the failing model, and for a parse
\* failure carries the raw response text.
C14_ErrorsNameProviderAndModel ==
  response.error \in {"ProviderError", "ParseFailure"} =>
     /\ response.context.provider = models[j + 1].provider
     /\ response.context.model = models[j + 1].model
     /\ response.error = "ParseFailure" =>
           response.context.text = <<returns[Len(returns)]>>

\* C15: when a voting call rejects, the handler responds with status 500 and
\* a body that has an error property.
C15_RejectionGives500 ==
  (pc = "done" /\ Len(returns) > 0 /\ IsVote(Len(returns))
     /\ returns[Len(returns)].kind = "throw") =>
        response.status = 500 /\ response.error # ""

RoundTrips ==
  /\ parserOutput.valid
  /\ parserOutput.decisionVector = parserInput.vote.decisionVector
  /\ parserOutput.justification = parserInput.vote.justification

ClosesFence(x) ==
  \E n \in 1..Len(x) :
     /\ x[n].kind = "}"
     /\ SkipWhitespace(x, n + 1) <= Len(x)
     /\ x[SkipWhitespace(x, n + 1)].kind = "fence"

HasScoreTag(x) == \E n \in 1..Len(x) : IsScoreTag(x[n])

RECURSIVE OwnFeedback(_, _)
OwnFeedback(r, n) ==
  IF n = 0 THEN <<>>
  ELSE IF /\ n \in Completed /\ IsVote(n) /\ calls[n].round < r
          /\ IsValidVote(returns[n], body.outcomes)
          /\ returns[n].justification # ""
       THEN Append(OwnFeedback(r, n - 1), EntryOf(n))
       ELSE OwnFeedback(r, n - 1)

FeedbackNames(feedback, ms) ==
  \A e \in 1..Len(feedback) : \E k \in 1..Len(ms) : feedback[e].model = ms[k].model

\* C17: with two requests interleaved at their awaits, every prompt, the
\* feedback, every composite and the result of a request are what its own
\* body and its own connector responses give; no feedback entry of one
\* request is in a prompt or in the feedback list of the other.
C17_RequestsAreIsolated ==
  /\ \A n \in 1..Len(calls) :
        IsVote(n) =>
          /\ calls[n].prompt.base = body.prompt
          /\ calls[n].model = models[calls[n].j + 1].model
          /\ calls[n].prompt.feedback = OwnFeedback(calls[n].round, n - 1)
  /\ \A a \in 1..Len(aggregated) :
        aggregated[a].composite = CompositeOfRound(a - 1)
  /\ finalAggregatedScore =
        IF aggregated = <<>> THEN EmptyScore
        ELSE CompositeOfRound(Len(aggregated) - 1)
  /\ Succeeded =>
        response = SuccessResponse(body.outcomes, CompositeOfRound(iterations - 1),
                                   returns[Len(returns)])
  /\ FeedbackNames(previousIterationResponses, models)
  /\ FeedbackNames(suspended.locals.previousIterationResponses, suspended.body.models)
  /\ \A n \in 1..Len(suspended.calls) :
        /\ suspended.calls[n].prompt.base \in {"", suspended.body.prompt}
        /\ FeedbackNames(suspended.calls[n].prompt.feedback, suspended.body.models)

\* both requests are in their second round at once, each with feedback of
\* its first round in the prompt
C17_Witness ==
  /\ pc = "await" /\ i = 1
  /\ suspended.pc = "await" /\ suspended.locals.i = 1
  /\ calls[Len(calls)].prompt.feedback # <<>>
  /\ suspended.calls[Len(suspended.calls)].prompt.feedback # <<>>

PositionalLabels == <<"outcome1", "outcome2", "outcome3">>

\* C18: a successful result has one score entry per outcome index, the k-th
\* labelled with the k-th outcome label when the request names its outcomes
\* and with "outcome<k>" when it does not.
C18_EntriesAreLabelled ==
  Succeeded =>
    /\ body.outcomes # NoOutcomes => Len(response.scores) = Len(body.outcomes)
    /\ \A k \in 1..Len(response.scores) :
          response.scores[k].outcome =
             IF body.outcomes # NoOutcomes THEN body.outcomes[k]
             ELSE PositionalLabels[k]

RECURSIVE Product(_)
Product(s) == IF s = <<>> THEN 1 ELSE s[1] * Product(Tail(s))

\* a <= b as JavaScript compares numbers: false when either is NaN
Leq(a, b) == a # NaN /\ b # NaN /\ a <= b

\* the exact weighted mean, for outcome index k, of the exact sample means of
\* the models in the last round, as the fraction ExactMeanNum(k) / ExactMeanDen
ExactMeanNum(k) ==
  AddSeq([n \in 1..Len(models) |->
     LET samples == SamplesOf(iterations - 1, n - 1, Len(returns)) IN
     Mul(models[n].weight * (Product(CountsOf(models)) \div Len(samples)),
         AddSeq([s \in 1..Len(samples) |-> At(samples[s], k)]))])

ExactMeanDen ==
  Product(CountsOf(models)) * SumSeq([n \in 1..Len(models) |-> models[n].weight])

\* C19: every reported score is at most the exact weighted mean of the exact
\* sample means and falls short of it by at most num_models; the reported
\* scores sum to at most 1,000,000.
C19_DriftIsBounded ==
  Succeeded =>
    /\ \A k \in 1..Len(response.scores) :
          LET score == response.scores[k].score IN
          /\ Leq(Mul(score, ExactMeanDen), ExactMeanNum(k))
          /\ Leq(Add(ExactMeanNum(k), - score * ExactMeanDen),
                 Len(models) * ExactMeanDen)
    /\ Leq(AddSeq([k \in 1..Len(response.scores) |-> response.scores[k].score]),
           Million)

\* C20: the attachments form is used only for a request with at least one
\* attachment and a model whose supportsAttachments probe is true, the
\* single-image form only for a model that supports images and not
\* attachments, the attachments form when a model supports both, and the
\* plain text form alone when there are no attachments; in the deliberation
\* handler for every call, and in the single-model generate route for every
\* combination of attachments and probes.
C20_InvocationForm ==
  /\ \A n \in 1..Len(calls) :
        LET sAtt == supportsAttachments(calls[n].provider, calls[n].model)
            sImg == supportsImages(calls[n].provider, calls[n].model) IN
        /\ calls[n].form \in {"attachments", "image", "text"}
        /\ calls[n].form = "attachments" =>
              Len(body.attachments) >= 1 /\ sAtt /\ IsVote(n)
        /\ calls[n].form = "image" => sImg /\ ~sAtt
        /\ (IsVote(n) /\ Len(body.attachments) >= 1 /\ sAtt) =>
              calls[n].form = "attachments"
        /\ Len(body.attachments) = 0 => calls[n].form = "text"
  /\ \A a \in AttachmentValues, sImg, sAtt \in BOOLEAN :
        LET form == generateInvocation(a, sImg, sAtt) IN
        /\ form = "attachments" => Len(a) >= 1 /\ sAtt
        /\ form = "image" => sImg /\ ~sAtt /\ Len(a) >= 1
        /\ (Len(a) >= 1 /\ sAtt) => form = "attachments"
        /\ Len(a) = 0 => form = "text"

\* a request with attachments has called one model in the attachments form
\* and another, which lacks the capability, in the plain form
C20_Witness ==
  /\ Len(body.attachments) >= 1
  /\ Len(calls) >= 2
  /\ calls[1].form = "attachments"
  /\ calls[2].form = "text" /\ IsVote(2)

(* C21: GET /api/generate returns the providers' models concatenated in the *)
(* order of PROVIDERS (Open-source, OpenAI, Anthropic) whatever the order   *)
(* in which the getModels calls finish; a provider whose lookup or          *)
(* getModels call fails contributes nothing and does not fail the request.  *)
Returned(k) ==
  IF providerModels[k].returned.kind = "models"
  THEN providerModels[k].returned.models ELSE <<>>
ModelsInProviderOrder ==
  WithProvider(1, Returned(1)) \o WithProvider(2, Returned(2))
    \o WithProvider(3, Returned(3))
C21_ModelsInProviderOrder ==
  modelsResponse.status # 0 =>
    /\ modelsResponse.models = ModelsInProviderOrder
    /\ ModelsInProviderOrder # <<>> => modelsResponse.status = 200

\* the last provider finished first, the first one failed, yet the models of
\* the other two are returned
C21_Witness ==
  /\ modelsResponse.status = 200
  /\ settled = <<3, 2, 1>>
  /\ providerModels[1].returned.kind = "reject"
  /\ Returned(2) # <<>> /\ Returned(3) # <<>>

(* C22: GET /api/generate answers with status 500 and the error 'An error  *)
(* occurred while fetching models.' if and only if no provider yields a     *)
(* model; otherwise it answers with the model list.                         *)
NoProviderYieldsAModel == \A k \in 1..Len(PROVIDERS) : Returned(k) = <<>>
C22_ErrorIffNoModels ==
  modelsResponse.status # 0 =>
    /\ modelsResponse = FetchingModelsError <=> NoProviderYieldsAModel
    /\ ~NoProviderYieldsAModel =>
         /\ modelsResponse.status = 200
         /\ modelsResponse.error = ""
         /\ modelsResponse.models # <<>>

\* one provider returned an empty list, the others failed: status 500
C22_Witness ==
  /\ modelsResponse = FetchingModelsError
  /\ providerModels[1].returned = [kind |-> "models", models |-> <<>>]
  /\ providerModels[2].returned.kind = "lookup-failed"
  /\ providerModels[3].returned.kind = "reject"

(* C23: within one round every connector call, whatever its model and its  *)
(* sample, receives the same prompt, and no feedback entry produced during  *)
(* a round appears in a prompt of that round.                               *)
C23_SamePromptWithinRound ==
  \A n \in 1..Len(calls) :
    IsVote(n) =>
      /\ \A m \in 1..Len(calls) :
            (IsVote(m) /\ calls[m].round = calls[n].round) =>
               calls[m].prompt = calls[n].prompt
      /\ \A e \in 1..Len(calls[n].prompt.feedback) :
            calls[n].prompt.feedback[e].round # calls[n].round

\* the justifications of the valid votes of round r among calls 1..n, in call
\* order, as the justifier is given them; those with an empty text included
\* or not
RECURSIVE JustificationsOfRound(_, _, _)
JustificationsOfRound(r, n, withEmpty) ==
  IF n = 0 THEN <<>>
  ELSE IF IsVoteOfRound(n, r) /\ (withEmpty \/ returns[n].justification # "")
       THEN Append(JustificationsOfRound(r, n - 1, withEmpty),
                   [model |-> calls[n].model,
                    justification |-> returns[n].justification])
       ELSE JustificationsOfRound(r, n - 1, withEmpty)

\* the justifier is handed the composite of the final round, and no feedback
\* entry comes from the final round
FinalCompositeAndNoCarry(n) ==
  /\ calls[n].justifierPrompt.vector = CompositeOfRound(iterations - 1)
  /\ \A e \in 1..Len(previousIterationResponses) :
        previousIterationResponses[e].round # iterations - 1

C28_LoggingIsInvisible == [][NextUnlogged]_handlerVars

\* a request succeeded although some, but not all, of its log writes failed
C28_Witness ==
  /\ Succeeded
  /\ Len(calls) >= 3
  /\ logFile # <<>>
  /\ Len(logFile) < 2 * Len(calls)

(* C25: within one request all accepted votes have the same length, also   *)
(* when the request names no outcomes, so the averager and the aggregator   *)
(* never combine vectors of different lengths.                              *)
C25_VotesHaveOneLength ==
  /\ \A n, m \in Completed :
        (/\ IsVote(n) /\ IsValidVote(returns[n], body.outcomes)
         /\ IsVote(m) /\ IsValidVote(returns[m], body.outcomes))
          => Len(returns[n].score) = Len(returns[m].score)
  /\ \A a \in 1..Len(averaged) :
        \A p, q \in 1..Len(averaged[a].samples) :
           Len(averaged[a].samples[p]) = Len(averaged[a].samples[q])
  /\ \A a \in 1..Len(aggregated) :
        \A p, q \in 1..Len(aggregated[a].vectors) :
           Len(aggregated[a].vectors[p]) = Len(aggregated[a].vectors[q])

(* C26: every component of every vote the parser accepts is a non-negative *)
(* integer, hence between 0 and 1,000,000: a score array with a negative or *)
(* non-numeric entry is a parse failure even when it sums to 1,000,000.     *)
C26_ComponentsAreNonNegative ==
  (pc = "parsed" /\ parserOutput.valid) =>
     \A k \in 1..Len(parserOutput.decisionVector) :
        parserOutput.decisionVector[k] \in 0..Million

\* what the old format gives, as a strategy's yield
OldFormat(text) ==
  [ok |-> OldFormatScore(text).ok, hasKeys |-> TRUE, scoreIsArray |-> TRUE,
   justificationIsString |-> TRUE, score |-> OldFormatScore(text).score,
   justification |-> OldFormatJustification(text)]

\* the four strategies in their order, each on its own
Strategies(text) ==
  <<DirectJson(text), JsonBlock(text), JsonScan(text, 1), OldFormat(text)>>

ConformsToSchema(y) == y.ok /\ y.scoreIsArray /\ y.justificationIsString

\* the yield of the first strategy that gives an object with an array score
\* and a string justification
FirstConforming(text) ==
  LET n == FirstIndex({k \in 1..4 : ConformsToSchema(Strategies(text)[k])}) IN
  IF n = 0 THEN Text(FALSE, FALSE, FALSE, <<>>, <<>>)
  ELSE Text(TRUE, TRUE, TRUE, Strategies(text)[n].score,
            Strategies(text)[n].justification)

(* C27: the parser returns the vote of the first of its strategies (direct *)
(* JSON, fenced block, brace scan, old tagged format) that yields an object *)
(* with an array score and a string justification; a strategy that yields   *)
(* an object not of that shape does not keep the later ones from being      *)
(* tried, so a parse fails only if no strategy yields a conforming object   *)
(* or the conforming vote fails the validation of its vector.               *)
C27_FirstConformingStrategy ==
  pc = "parsed" =>
     LET vote == parseModelResponse(FirstConforming(parserInput.text),
                                    parserInput.outcomes) IN
     /\ parserOutput.valid = vote.valid
     /\ vote.valid =>
          /\ parserOutput.decisionVector = vote.decisionVector
          /\ parserOutput.justification = vote.justification

(* C30: a success result is produced only after at least one full round in *)
(* which every model gave at least one valid vote: whatever iterations and  *)
(* count are (zero, negative and missing ones included), no request yields  *)
(* a success response with an empty score list or without a justifier call. *)
C30_SuccessNeedsAFullRound ==
  Succeeded =>
    /\ response.scores # <<>>
    /\ NumberOfCalls("justifier") = 1
    /\ \E r \in 0..MaxIter :
          \A jj \in 0..(Len(models) - 1) :
             \E n \in VotesOfRound(r) : calls[n].j = jj

\* the voting calls of round r
VoteCallsOfRound(r) == {n \in 1..Len(calls) : IsVote(n) /\ calls[n].round = r}

CallsAreBounded ==
  /\ \A n \in 1..Len(calls) : calls[n].round \in 0..(iterations - 1)
  /\ \A r \in 0..(iterations - 1) :
        Cardinality(VoteCallsOfRound(r)) <= SumSeq(CountsOf(models))
  /\ NumberOfCalls("justifier") <= 1
  /\ Len(calls) <= PlannedCalls(body) + 1

Responded == response.status # 0

(* C29: provided every connector call eventually returns or throws, every  *)
(* request reaches the terminal state and produces exactly one response     *)
(* (none before the terminal state, none changed afterwards), after at most *)
(* iterations rounds of at most sum-of-counts voting calls each and at most *)
(* one justifier call.                                                      *)
C29_TerminatesWithOneResponse ==
  /\ <>(pc = "done" /\ Responded)
  /\ [](CallsAreBounded /\ (Responded <=> pc = "done"))
  /\ [][Responded => response' = response /\ calls' = calls]_vars

\* a request ended after all the calls it may make: three rounds of two
\* models and the justifier call
C29_Witness ==
  /\ pc = "done" /\ Succeeded
  /\ iterations = 3 /\ Len(models) = 2
  /\ Len(calls) = PlannedCalls(body) + 1

====
